---- MODULE Spec2Model ----
(***************************************************************************)
(* A model of the daily-stock-picks repository:                            *)
(*   src/scanner.py              get_expanded_tickers, calculate_rsi, scan *)
(*   src/scripts/update_picks.py analyze_stock, detect_parabolic_moves,    *)
(*                               select_top_picks                          *)
(* Prices and volumes are integers; every comparison the code makes on a   *)
(* quotient is made here on the cross-multiplied integers, so it is exact. *)
(* A float64 quotient with a zero denominator is NaN (0/0) or +-inf (x/0), *)
(* as numpy computes it: it never raises.                                  *)
(***************************************************************************)
EXTENDS Integers, Sequences, FiniteSets, TLC

VARIABLES
    pc,           \* position of the running program
    fetch,        \* what the two read_html calls return (input)
    data,         \* what yf.download returns (input)
    tickers,      \* scan: the list get_expanded_tickers returned
    idx,          \* scan / select_top_picks: index of the next ticker of the loop
    all_results,  \* scan: the records admitted so far
    data_json,    \* the content of data.json
    prev_json,    \* the content of data.json the previous run wrote
    run,          \* number of the current run of scan()
    hist,         \* analyze_stock: what stock.history returned (input)
    analysis,     \* analyze_stock: the returned value
    feed,         \* select_top_picks: the history each ticker was given so far
    results,      \* select_top_picks: the analyses collected
    bullish_picks,
    bearish_picks

vars == <<pc, fetch, data, tickers, idx, all_results, data_json, prev_json, run,
          hist, analysis, feed, results, bullish_picks, bearish_picks>>

scanVars == <<tickers, all_results, data_json, prev_json, run>>
analyzeVars == <<hist, analysis>>
selectVars == <<feed, results, bullish_picks, bearish_picks>>

----------------------------------------------------------------------------
(* Bounds of the model *)

\* length of each fetched membership list in the ticker-source specification
MaxList == 2
\* largest number of distinct symbols the fetched lists hold in a scan
MaxScanTickers == 16
\* the set-iteration orders considered: rotations 0..MaxRot, each also reversed
MaxRot == 1
\* number of tickers of SCAN_UNIVERSE that are modelled
UniverseSize == 4

(* Program constants *)
TopN == 15
RsiPeriod == 14
MinBars == 50
RsiOversold == 40
MinHistory == 200
StrongScore == 7
RatingMargin == 2
PriorityTake == 2
PickSlots == 3

----------------------------------------------------------------------------
(* Sequences *)

Min(a, b) == IF a < b THEN a ELSE b
Max(a, b) == IF a > b THEN a ELSE b

\* s[:n]
Take(s, n) == SubSeq(s, 1, Min(n, Len(s)))

Range(s) == {s[i] : i \in 1..Len(s)}

Reverse(s) == [i \in 1..Len(s) |-> s[Len(s) + 1 - i]]

RECURSIVE SumUpTo(_, _)
SumUpTo(s, i) == IF i = 0 THEN 0 ELSE s[i] + SumUpTo(s, i - 1)

SumSeq(s) == SumUpTo(s, Len(s))

\* s.tail(n)
TailN(s, n) == SubSeq(s, Max(1, Len(s) - n + 1), Len(s))

RECURSIVE SetToSeq(_)
SetToSeq(S) ==
    IF S = {} THEN <<>>
    ELSE LET x == CHOOSE y \in S : TRUE IN <<x>> \o SetToSeq(S \ {x})

\* Insert r after every element whose key is >= r's: with the elements taken
\* in their original order this is a stable sort, descending by r[key].
RECURSIVE InsertDesc(_, _, _)
InsertDesc(sorted, r, key) ==
    IF sorted = <<>> THEN <<r>>
    ELSE IF sorted[1][key] >= r[key]
         THEN <<sorted[1]>> \o InsertDesc(Tail(sorted), r, key)
         ELSE <<r>> \o sorted

RECURSIVE SortedDescFrom(_, _, _)
SortedDescFrom(acc, s, key) ==
    IF s = <<>> THEN acc
    ELSE SortedDescFrom(InsertDesc(acc, s[1], key), Tail(s), key)

\* sorted(s, key=lambda x: x[key], reverse=True): stable, descending
SortedDesc(s, key) == SortedDescFrom(<<>>, s, key)

----------------------------------------------------------------------------
(* scanner.py: get_expanded_tickers *)

\* A cell of a fetched table column: a string (its characters) or, for an
\* empty cell, a float NaN, which is not a str.
Str(chars) == [isstr |-> TRUE, s |-> chars]
NotStr == [isstr |-> FALSE, s |-> <<>>]

Letters == <<"A", "B", "C", "D", "E", "F", "G", "H", "I", "J", "K", "L", "M",
             "N", "O", "P", "Q", "R", "S", "T", "U", "V", "W", "X", "Y", "Z">>

\* the i-th generated symbol: "XA", "XB", ...
Sym(i) == <<"X", Letters[i]>>

BrkDot == <<"B", "R", "K", ".", "B">>
BrkHyphen == <<"B", "R", "K", "-", "B">>
BfDot == <<"B", "F", ".", "B">>

ManualList ==
    << <<"A","A","P","L">>, <<"M","S","F","T">>, <<"T","S","L","A">>,
       <<"N","V","D","A">>, <<"A","M","D">>, <<"G","O","O","G","L">>,
       <<"A","M","Z","N">>, <<"M","E","T","A">>, <<"N","F","L","X">>,
       <<"P","L","T","R">>, <<"S","Q">>, <<"P","Y","P","L">>, <<"B","A">>,
       <<"D","I","S">>, <<"J","P","M">> >>

\* t.replace('.', '-')
Replace(t) == [i \in 1..Len(t) |-> IF t[i] = "." THEN "-" ELSE t[i]]

\* list(set(x)): the elements of x, once each, in the order the set iterates;
\* for str elements that order depends on the process's hash seed, so it is
\* any of the orders hashOrder names.
HashOrders == [rot : 0..MaxRot, rev : BOOLEAN]

ListOfSet(x, hashOrder) ==
    LET c == SetToSeq(Range(x))
        n == Len(c)
        r == [i \in 1..n |-> c[((i - 1 + hashOrder.rot) % n) + 1]]
    IN  IF hashOrder.rev THEN Reverse(r) ELSE r

\* [t.replace('.', '-') for t in tickers if isinstance(t, str)]
Normalized(ts) ==
    LET strs == SelectSeq(ts, LAMBDA t : t.isstr)
    IN  [i \in 1..Len(strs) |-> Replace(strs[i].s)]

get_expanded_tickers(f, hashOrder) ==
    IF f.ok
    THEN Normalized(ListOfSet(f.sp500 \o f.nasdaq100, hashOrder))
    ELSE ManualList

----------------------------------------------------------------------------
(* scanner.py: the downloaded frames *)

Flat(n, c) == [i \in 1..n |-> c]

\* data[ticker].dropna() for each frame the model's download can hold:
\* absent: the ticker is no column of the download (KeyError);
\* cols: the frame has its Close and Volume columns (KeyError if not).
Frame(p) ==
    CASE p = 1 -> [absent |-> TRUE, cols |-> TRUE, close |-> <<>>, volume |-> <<>>]
      [] p = 2 -> [absent |-> FALSE, cols |-> TRUE,
                   close |-> Flat(49, 100), volume |-> Flat(49, 1000000)]
      [] p = 3 -> [absent |-> FALSE, cols |-> TRUE,
                   close |-> Flat(60, 100), volume |-> Flat(60, 1000000)]
      [] p = 4 -> [absent |-> FALSE, cols |-> TRUE,
                   close |-> [i \in 1..60 |-> 100 + i], volume |-> Flat(60, 1000000)]
      [] p = 5 -> [absent |-> FALSE, cols |-> TRUE,
                   close |-> [i \in 1..60 |-> 100 + (i % 2)],
                   volume |-> Flat(60, 1000000)]
      [] p = 6 -> [absent |-> FALSE, cols |-> TRUE,
                   close |-> [i \in 1..60 |-> 100 + (i % 2)],
                   volume |-> [i \in 1..60 |-> IF i = 60 THEN 2000000 ELSE 900000]]
      [] p = 7 -> [absent |-> FALSE, cols |-> TRUE,
                   close |-> [i \in 1..60 |-> IF i = 59 THEN 90
                                              ELSE IF i = 60 THEN 110 ELSE 100],
                   volume |-> [i \in 1..60 |-> IF i = 60 THEN 2000000 ELSE 900000]]
      [] p = 8 -> [absent |-> FALSE, cols |-> TRUE,
                   close |-> [i \in 1..60 |-> IF i = 59 THEN 90
                                              ELSE IF i = 60 THEN 110 ELSE 100],
                   volume |-> Flat(60, 1000000)]
      [] OTHER -> [absent |-> FALSE, cols |-> FALSE,
                   close |-> Flat(60, 100), volume |-> <<>>]

Frames == 1..9

----------------------------------------------------------------------------
(* scanner.py: calculate_rsi and the rolling means, at one row *)

\* series.diff(): row i holds series[i] - series[i-1]; row 1 is NaN
Delta(series, i) == series[i] - series[i - 1]

\* the sum behind delta.where(delta > 0, 0).rolling(period).mean() at row `at`
GainSum(series, at, period) ==
    SumSeq([k \in 1..period |-> Max(Delta(series, at - period + k), 0)])

\* the sum behind (-delta.where(delta < 0, 0)).rolling(period).mean() at row `at`
LossSum(series, at, period) ==
    SumSeq([k \in 1..period |-> Max(0 - Delta(series, at - period + k), 0)])

\* the sum behind series.rolling(window).mean() at row `at`
RollingSum(series, at, window) ==
    SumSeq(SubSeq(series, at - window + 1, at))

(* calculate_rsi: with G and L the window's sums of gains and of losses,       *)
(*   rs = (G/period) / (L/period + 1e-9),  RSI = 100 - 100/(1 + rs)           *)
(*      = 100*G / (G + L + period*1e-9).                                       *)
(* G and L are integers and 0 < t*period*1e-9 < 1 for a threshold t <= 100, so *)
(*   RSI < t  <=>  (100 - t)*G < t*L + t*period*1e-9  <=>  (100 - t)*G <= t*L. *)
RsiBelow(G, L, t) == (100 - t) * G <= t * L

\* round(RSI, 1) in tenths. The 1e-9 keeps RSI just under 100*G/(G+L), so a
\* value exactly on a half rounds down; with G = 0 the quotient is 0.
RsiTenths(G, L) ==
    IF G = 0 THEN 0
    ELSE LET N == 2000 * G + (G + L)
             D == 2 * (G + L)
         IN  IF N % D = 0 THEN (N \div D) - 1 ELSE N \div D

----------------------------------------------------------------------------
(* scanner.py: scan, one ticker of the loop (lines 36-83) *)

\* What the try block computes from one frame (lines 37-71): it raises, it
\* leaves by `continue` on a short frame, or it evaluates the four signals.
Signals(p) ==
    LET df == Frame(p)
        n == Len(df.close)
    IN  IF df.absent THEN [kind |-> "raise"]
        ELSE IF n < MinBars THEN [kind |-> "short"]
        ELSE IF ~df.cols THEN [kind |-> "raise"]
        ELSE
        LET close == df.close
            G == GainSum(close, n, RsiPeriod)
            L == LossSum(close, n, RsiPeriod)
            sma20 == RollingSum(close, n, 20)
            sma20prev == RollingSum(close, n - 1, 20)
            sma50 == RollingSum(close, n, 50)
            volsum == SumSeq(TailN(df.volume, 20))
        IN  [kind |-> "scored",
             oversold |-> RsiBelow(G, L, RsiOversold),
             breakout |-> 20 * close[n] > sma20 /\ 20 * close[n - 1] < sma20prev,
             spike |-> 200 * df.volume[n] > 13 * volsum,
             trend |-> 20 * close[n] > sma20 /\ 50 * sma20 > 20 * sma50,
             price |-> close[n],
             rsi |-> RsiTenths(G, L)]

\* Signals of every frame, evaluated once
SignalsOf == [p \in Frames |-> Signals(p)]

\* One ticker of the loop: the outcome of the try block and, when it scored,
\* the record lines 75-81 build.
ScanTicker(ticker, p) ==
    LET s == SignalsOf[p]
    IN  IF s.kind # "scored" THEN [kind |-> s.kind, score |-> 0]
        ELSE
        LET score == (IF s.oversold THEN 1 ELSE 0) + (IF s.breakout THEN 2 ELSE 0)
                     + (IF s.spike THEN 1 ELSE 0) + (IF s.trend THEN 1 ELSE 0)
            reasons == (IF s.oversold THEN <<"Oversold">> ELSE <<>>)
                       \o (IF s.breakout THEN <<"Trend Breakout">> ELSE <<>>)
                       \o (IF s.spike THEN <<"Volume Spike">> ELSE <<>>)
                       \o (IF s.trend THEN <<"Bullish Trend">> ELSE <<>>)
        IN  [kind |-> "scored", score |-> score,
             rec |-> [ticker |-> ticker, price |-> s.price, score |-> score,
                      reason |-> reasons, rsi |-> s.rsi]]

\* no handler around the ticker: the exception leaves the loop
OnScanErrorAbort == "abort"

\* `except: continue` (lines 82-83): where the loop goes after a ticker raised
OnScanError == "continue"

\* the first 15 records in encounter order: the sort left out
TopPicksUnsorted(rs) == Take(rs, TopN)

\* sorted(all_results, key=lambda x: x['score'], reverse=True)[:15]
TopPicks(rs) == Take(SortedDesc(rs, "score"), TopN)

----------------------------------------------------------------------------
(* scanner.py: the inputs of a scan *)

SymSeq(a, b) == [i \in 1..(b - a + 1) |-> Str(Sym(a + i - 1))]

\* The two membership lists read_html returns: n symbols between them, one in
\* both lists; or the class-B share under both of its spellings; or a failure.
ScanFetches ==
    {[ok |-> FALSE, sp500 |-> <<>>, nasdaq100 |-> <<>>]}
    \cup {[ok |-> TRUE, sp500 |-> SymSeq(1, (n + 1) \div 2),
           nasdaq100 |-> SymSeq(Max(1, (n + 1) \div 2), n)] : n \in 0..MaxScanTickers}
    \cup {[ok |-> TRUE, sp500 |-> <<Str(BrkDot), Str(Sym(1))>>,
           nasdaq100 |-> <<Str(BrkHyphen), NotStr>>]}

AllSymbols ==
    ManualList \o [i \in 1..MaxScanTickers |-> Sym(i)] \o <<BrkHyphen>>

IndexOf == [s \in Range(AllSymbols) |-> CHOOSE i \in 1..Len(AllSymbols) : AllSymbols[i] = s]

\* The download: one frame per symbol, the frames repeating a short pattern
\* along AllSymbols. The variable data holds the pattern.
Downloads == {<<p>> : p \in Frames} \cup {<<p, q>> : p \in {3, 7}, q \in Frames}

\* data[ticker]
FrameOf(download, ticker) == download[(IndexOf[ticker] % Len(download)) + 1]

NoFile == [last_updated |-> 0, picks |-> <<>>]

----------------------------------------------------------------------------
(* scanner.py: scan *)

InitScan ==
    /\ pc = "scan_start"
    /\ fetch \in ScanFetches
    /\ data \in Downloads
    /\ tickers = <<>>
    /\ idx = 0
    /\ all_results = <<>>
    /\ data_json = NoFile
    /\ prev_json = NoFile
    /\ run = 1
    /\ hist = 0 /\ analysis = 0
    /\ feed = <<>> /\ results = <<>> /\ bullish_picks = <<>> /\ bearish_picks = <<>>

\* lines 26-33
ScanStart ==
    /\ pc = "scan_start"
    /\ \E h \in HashOrders : tickers' = get_expanded_tickers(fetch, h)
    /\ all_results' = <<>>
    /\ idx' = 1
    /\ pc' = "scan_loop"
    /\ UNCHANGED <<fetch, data, data_json, prev_json, run, analyzeVars, selectVars>>

\* lines 35-83, one iteration
ScanLoop ==
    /\ pc = "scan_loop"
    /\ idx <= Len(tickers)
    /\ LET o == ScanTicker(tickers[idx], FrameOf(data, tickers[idx]))
       IN  IF o.kind = "raise" /\ OnScanError # "continue"
           THEN /\ pc' = "scan_crashed"
                /\ UNCHANGED <<idx, all_results>>
           ELSE /\ pc' = pc
                /\ idx' = idx + 1
                /\ all_results' = IF o.kind = "scored" /\ o.score > 0
                                  THEN Append(all_results, o.rec)
                                  ELSE all_results
    /\ UNCHANGED <<fetch, data, tickers, data_json, prev_json, run, analyzeVars,
                   selectVars>>

\* lines 85-97
ScanWrite ==
    /\ pc = "scan_loop"
    /\ idx > Len(tickers)
    /\ data_json' = [last_updated |-> run, picks |-> TopPicks(all_results)]
    /\ pc' = "scan_written"
    /\ UNCHANGED <<fetch, data, tickers, idx, all_results, prev_json, run,
                   analyzeVars, selectVars>>

\* the job's next run, on the same responses and the same download
ScanAgain ==
    /\ pc = "scan_written"
    /\ run = 1
    /\ prev_json' = data_json
    /\ run' = 2
    /\ pc' = "scan_start"
    /\ UNCHANGED <<fetch, data, tickers, idx, all_results, data_json, analyzeVars,
                   selectVars>>

NextScan == ScanStart \/ ScanLoop \/ ScanWrite \/ ScanAgain

SpecScan == InitScan /\ [][NextScan]_vars

----------------------------------------------------------------------------
(* update_picks.py: float64 quotients *)

\* The float64 n/d for integers n and d >= 0: NaN when both are 0, +-inf when
\* only d is, as numpy divides (a RuntimeWarning, no exception).
Quot(n, d) == [n |-> n, d |-> d]

\* q < c and q > c: every comparison with NaN is False
Lt(q, c) == IF q.d = 0 THEN q.n < 0 ELSE q.n < c * q.d
Gt(q, c) == IF q.d = 0 THEN q.n > 0 ELSE q.n > c * q.d

\* n/d rounded to the nearest integer, halves to even, for d > 0
RoundDiv(n, d) ==
    LET q == n \div d
        r == n - q * d
    IN  IF 2 * r < d THEN q
        ELSE IF 2 * r > d THEN q + 1
        ELSE IF q % 2 = 0 THEN q ELSE q + 1

\* round(q, digits) as a count of 10^-digits (scale = 10^digits): round()
\* returns NaN and +-inf unchanged
Round(q, scale) ==
    IF q.d = 0
    THEN [k |-> IF q.n = 0 THEN "nan" ELSE IF q.n > 0 THEN "inf" ELSE "-inf", v |-> 0]
    ELSE [k |-> "num", v |-> RoundDiv(scale * q.n, q.d)]

Defined(val) == val.k = "num"

\* val > c and val < c on a rounded value, c in the same unit
VGt(val, c) == val.k = "inf" \/ (val.k = "num" /\ val.v > c)
VLt(val, c) == val.k = "-inf" \/ (val.k = "num" /\ val.v < c)

----------------------------------------------------------------------------
(* update_picks.py: analyze_stock *)

(* What analyze_stock reads from stock.history(period="1y"):                 *)
(*   kind       "raise" when the call raises, else "ok"                      *)
(*   len        len(hist)                                                    *)
(*   price,prev hist['Close'].iloc[-1], .iloc[-2]                            *)
(*   G, L       the sums of the gains and of the losses of the last 14 deltas*)
(*   macd_above macd > macd_signal at the last row (calculate_macd)          *)
(*   ma50,ma200 get_moving_averages                                          *)
(*   cv, volsum hist['Volume'].iloc[-1] and the sum of its last 20 values,   *)
(*              in thousands of shares                                       *)
(*   vol_nan    the last Volume is NaN                                       *)
(*   high52,low52,rh,rl  the maxima of High and minima of Low over the last  *)
(*              252 and the last 50 rows                                     *)

\* calculate_rsi (lines 38-45): rs = gain / loss with no guard, so a window
\* with no loss gives rs = inf and RSI = 100, and a flat window gives NaN.
calculate_rsi(G, L) ==
    IF L = 0 /\ G = 0 THEN Quot(0, 0) ELSE Quot(100 * G, G + L)

\* lines 100-104
RsiRule(rsi) ==
    IF Lt(rsi, 30) THEN [bull |-> 3, bear |-> 0]
    ELSE IF Gt(rsi, 70) THEN [bull |-> 0, bear |-> 3]
    ELSE [bull |-> 0, bear |-> 0]

\* lines 106-110
MacdRule(macd_above) ==
    IF macd_above THEN [bull |-> 2, bear |-> 0] ELSE [bull |-> 0, bear |-> 2]

\* lines 112-116
MaRule(price, ma50, ma200) ==
    IF price > ma50 /\ ma50 > ma200 THEN [bull |-> 2, bear |-> 0]
    ELSE IF price < ma50 /\ ma50 < ma200 THEN [bull |-> 0, bear |-> 2]
    ELSE [bull |-> 0, bear |-> 0]

\* the volume rule as the specification words it: else +1 bearish
VolumeRuleElseBearish(volume_ratio, price, prev) ==
    IF Gt(Quot(2 * volume_ratio.n, volume_ratio.d), 3)
    THEN IF price > prev THEN [bull |-> 1, bear |-> 0] ELSE [bull |-> 0, bear |-> 1]
    ELSE [bull |-> 0, bear |-> 0]

\* lines 118-121: volume_ratio > 1.5, as 2*volume_ratio > 3
VolumeRule(volume_ratio, price, prev) ==
    IF Gt(Quot(2 * volume_ratio.n, volume_ratio.d), 3)
    THEN [bull |-> IF price > prev THEN 1 ELSE 0,
          bear |-> IF price < prev THEN 1 ELSE 0]
    ELSE [bull |-> 0, bear |-> 0]

\* lines 123-127
PdRule(pd_position) ==
    IF Lt(pd_position, -30) THEN [bull |-> 2, bear |-> 0]
    ELSE IF Gt(pd_position, 70) THEN [bull |-> 0, bear |-> 2]
    ELSE [bull |-> 0, bear |-> 0]

\* a rating that drops the margin: the higher score wins
RatingNoMargin(bullish_score, bearish_score) ==
    IF bullish_score > bearish_score
    THEN [rating |-> IF bullish_score >= StrongScore THEN "STRONG BUY" ELSE "BUY",
          bias |-> "bullish"]
    ELSE IF bearish_score > bullish_score
    THEN [rating |-> IF bearish_score >= StrongScore THEN "STRONG PUT" ELSE "PUT",
          bias |-> "bearish"]
    ELSE [rating |-> "NEUTRAL", bias |-> "neutral"]

\* lines 129-138
Rating(bullish_score, bearish_score) ==
    IF bullish_score > bearish_score + RatingMargin
    THEN [rating |-> IF bullish_score >= StrongScore THEN "STRONG BUY" ELSE "BUY",
          bias |-> "bullish"]
    ELSE IF bearish_score > bullish_score + RatingMargin
    THEN [rating |-> IF bearish_score >= StrongScore THEN "STRONG PUT" ELSE "PUT",
          bias |-> "bearish"]
    ELSE [rating |-> "NEUTRAL", bias |-> "neutral"]

\* lines 78-94
VolumeRatio(h) == Quot(20 * h.cv, h.volsum)
RangePosition(h) == Quot(100 * (h.price - h.low52), h.high52 - h.low52)
\* (price - equilibrium) / (recent_high - equilibrium) * 100 with
\* equilibrium = (recent_high + recent_low) / 2, both terms doubled
PdPosition(h) == Quot(100 * (2 * h.price - h.rh - h.rl), h.rh - h.rl)

None == [some |-> FALSE, raised |-> FALSE]
Raised == [some |-> FALSE, raised |-> TRUE]

\* analyze_stock (lines 61-165). `raised` tells that the None came from the
\* except clause. With a NaN last Volume every float of the record is still
\* computed and int(current_volume / 1_000_000) raises ValueError.
analyze_stock(ticker, h) ==
    IF h.kind = "raise" THEN Raised
    ELSE IF h.len < MinHistory THEN None
    ELSE
    LET rsi == calculate_rsi(h.G, h.L)
        volume_ratio == IF h.vol_nan THEN Quot(0, 0) ELSE VolumeRatio(h)
        range_position == RangePosition(h)
        pd_position == PdPosition(h)
        rules == <<RsiRule(rsi), MacdRule(h.macd_above),
                   MaRule(h.price, h.ma50, h.ma200),
                   VolumeRule(volume_ratio, h.price, h.prev), PdRule(pd_position)>>
        bullish_score == SumSeq([i \in 1..5 |-> rules[i].bull])
        bearish_score == SumSeq([i \in 1..5 |-> rules[i].bear])
        verdict == Rating(bullish_score, bearish_score)
    IN  IF h.vol_nan THEN Raised
        ELSE [some |-> TRUE, raised |-> FALSE,
              r |-> [ticker |-> ticker,
                     price |-> h.price,
                     rsi |-> Round(rsi, 10),
                     ma50 |-> h.ma50,
                     ma200 |-> h.ma200,
                     volume |-> h.cv \div 1000,
                     volume_ratio |-> Round(volume_ratio, 100),
                     support |-> h.rl,
                     resistance |-> h.rh,
                     range_position |-> Round(range_position, 10),
                     pd_position |-> Round(pd_position, 10),
                     rating |-> verdict.rating,
                     bias |-> verdict.bias,
                     bullish_score |-> bullish_score,
                     bearish_score |-> bearish_score,
                     high_52w |-> h.high52,
                     low_52w |-> h.low52]]

----------------------------------------------------------------------------
(* update_picks.py: the histories analyze_stock is given *)

Levels == {100, 120, 160, 190, 200}

\* the 52-week and the 50-row extremes
Windows ==
    {w \in [low52 : {100}, high52 : {100, 200}, rl : Levels, rh : Levels] :
        w.low52 <= w.rl /\ w.rl <= w.rh /\ w.rh <= w.high52}

\* the last two closes and the two averages; every close of a window lies
\* between its Low minimum and its High maximum, and so does their mean, which
\* touches an extreme only when every close of the window is that extreme
Closes(w) ==
    {c \in [price : Levels, prev : {90, 100, 110, 120, 130, 150, 160, 170, 180,
                                    190, 200},
            ma50 : Levels \cup {110, 195}, ma200 : Levels \cup {105, 198}] :
        /\ c.prev - c.price \in {-10, 0, 10}
        /\ w.rl <= c.price /\ c.price <= w.rh
        /\ w.rl <= c.prev /\ c.prev <= w.rh
        /\ w.rl <= c.ma50 /\ c.ma50 <= w.rh
        /\ w.low52 <= c.ma200 /\ c.ma200 <= w.high52
        /\ c.ma50 \in {w.rl, w.rh} => c.price = c.ma50 /\ c.prev = c.ma50
        /\ c.ma200 \in {w.low52, w.high52} => c.price = c.ma200 /\ c.ma50 = c.ma200}

\* the sums of the gains and of the losses of the last 14 deltas, the last
\* delta among them; a flat window has none
Momenta(w, c) ==
    {m \in {[G |-> 0, L |-> 0], [G |-> 10, L |-> 90], [G |-> 90, L |-> 10],
            [G |-> 50, L |-> 50], [G |-> 90, L |-> 0], [G |-> 0, L |-> 90],
            [G |-> 30, L |-> 70], [G |-> 70, L |-> 30]} :
        /\ c.price > c.prev => m.G >= c.price - c.prev
        /\ c.price < c.prev => m.L >= c.prev - c.price
        /\ (w.rl = w.rh \/ c.ma50 \in {w.rl, w.rh}) => m.G = 0 /\ m.L = 0}

\* the last volume and the sum of the last 20, the last among them, in
\* thousands of shares
Volumes ==
    {[cv |-> 0, volsum |-> 0, vol_nan |-> FALSE],
     [cv |-> 1000, volsum |-> 20000, vol_nan |-> FALSE],
     [cv |-> 1500, volsum |-> 20000, vol_nan |-> FALSE],
     [cv |-> 1600, volsum |-> 20000, vol_nan |-> FALSE],
     [cv |-> 2000, volsum |-> 20000, vol_nan |-> FALSE],
     [cv |-> 3000, volsum |-> 20000, vol_nan |-> FALSE],
     [cv |-> 0, volsum |-> 19000, vol_nan |-> TRUE]}

Hist(n, w, c, m, macd_above, v) ==
    [kind |-> "ok", len |-> n, price |-> c.price, prev |-> c.prev,
     G |-> m.G, L |-> m.L, macd_above |-> macd_above,
     ma50 |-> c.ma50, ma200 |-> c.ma200,
     cv |-> v.cv, volsum |-> v.volsum, vol_nan |-> v.vol_nan,
     high52 |-> w.high52, low52 |-> w.low52, rh |-> w.rh, rl |-> w.rl]

FlatWindow == [low52 |-> 100, high52 |-> 100, rl |-> 100, rh |-> 100]
FlatCloses == [price |-> 100, prev |-> 100, ma50 |-> 100, ma200 |-> 100]
FlatVolume == [cv |-> 1000, volsum |-> 20000, vol_nan |-> FALSE]

\* stock.history raised
NoHistory == [Hist(0, FlatWindow, FlatCloses, [G |-> 0, L |-> 0], FALSE, FlatVolume)
              EXCEPT !.kind = "raise"]

\* 60 flat rows at close 100 and volume 1,000,000
Flat60 == Hist(60, FlatWindow, FlatCloses, [G |-> 0, L |-> 0], FALSE, FlatVolume)

\* every history of the model: the two above, or a well-formed one of 199 or
\* of 252 rows
IsHist(h) ==
    \/ h \in {NoHistory, Flat60}
    \/ \E w \in Windows : \E c \in Closes(w) : \E m \in Momenta(w, c) :
          \E n \in {199, 252}, a \in BOOLEAN, v \in Volumes :
             h = Hist(n, w, c, m, a, v)

----------------------------------------------------------------------------
(* update_picks.py: analyze_stock on one history *)

SCAN_UNIVERSE ==
    <<"AAPL", "MSFT", "NVDA", "GOOGL", "META", "TSLA", "AMD", "INTC",
      "XLE", "XOP", "OXY", "CVX", "COP", "IWM", "VTWO", "GLD", "SLV", "USO",
      "SOXX", "SMH", "SNDK", "RGTI", "IONQ", "QBTS">>

InitAnalyze ==
    /\ pc = "analyze_call"
    /\ IsHist(hist)
    /\ analysis = None
    /\ fetch = 0 /\ data = 0 /\ tickers = <<>> /\ idx = 0 /\ all_results = <<>>
    /\ data_json = NoFile /\ prev_json = NoFile /\ run = 0
    /\ feed = <<>> /\ results = <<>> /\ bullish_picks = <<>> /\ bearish_picks = <<>>

Analyze ==
    /\ pc = "analyze_call"
    /\ analysis' = analyze_stock(SCAN_UNIVERSE[1], hist)
    /\ pc' = "analyze_returned"
    /\ UNCHANGED <<fetch, data, idx, hist, scanVars, selectVars>>

NextAnalyze == Analyze

SpecAnalyze == InitAnalyze /\ [][NextAnalyze]_vars

----------------------------------------------------------------------------
(* update_picks.py: detect_parabolic_moves and select_top_picks *)

\* {**r, 'pattern': pattern}
Tag(r, pattern) ==
    [k \in DOMAIN r \cup {"pattern"} |-> IF k = "pattern" THEN pattern ELSE r[k]]

Tagged(p) == "pattern" \in DOMAIN p

\* line 179, on the rounded fields of the record (tenths)
IsParabolicTop(r) == VGt(r.range_position, 850) /\ VGt(r.rsi, 700)

\* line 184 (volume_ratio in hundredths)
IsBreakoutRocket(r) ==
    VGt(r.volume_ratio, 200) /\ VGt(r.range_position, 700) /\ VLt(r.rsi, 750)

TagAll(rs, pattern) == [i \in 1..Len(rs) |-> Tag(rs[i], pattern)]

\* lines 171-188
detect_parabolic_moves(rs) ==
    [parabolic_tops |-> TagAll(SelectSeq(rs, IsParabolicTop), "PARABOLIC TOP"),
     breakout_rockets |-> TagAll(SelectSeq(rs, IsBreakoutRocket), "BREAKOUT ROCKET")]

\* taking a pattern match for every slot
PriorityPicksAllSlots(matches) == Take(matches, PickSlots)

\* lines 207 and 218: parabolic_tops[:2], breakout_rockets[:2]
PriorityPicks(matches) == Take(matches, PriorityTake)

\* `r not in matches`: r equals no element of the list. A record of results
\* has no 'pattern' key and every element of matches has one, so dict
\* equality, like record equality here, never holds.
NotIn(r, matches) == \A i \in 1..Len(matches) : matches[i] # r

\* lines 208-214 and 219-225
Backfill(picks, rs, matches, bias, key) ==
    IF Len(picks) < PickSlots
    THEN picks \o Take(SortedDesc(SelectSeq(rs, LAMBDA r :
                                      r.bias = bias /\ NotIn(r, matches)), key),
                       PickSlots - Len(picks))
    ELSE picks

\* lines 202-227, after the loop
SelectFrom(rs) ==
    LET found == detect_parabolic_moves(rs)
        bearish == Backfill(PriorityPicks(found.parabolic_tops), rs,
                            found.parabolic_tops, "bearish", "bearish_score")
        bullish == Backfill(PriorityPicks(found.breakout_rockets), rs,
                            found.breakout_rockets, "bullish", "bullish_score")
    IN  [bullish |-> Take(bullish, PickSlots), bearish |-> Take(bearish, PickSlots)]

----------------------------------------------------------------------------
(* update_picks.py: the histories select_top_picks meets *)

WideWindow == [low52 |-> 100, high52 |-> 200, rl |-> 100, rh |-> 200]
HighWindow == [low52 |-> 100, high52 |-> 200, rl |-> 160, rh |-> 200]
QuietVolume == [cv |-> 1000, volsum |-> 20000, vol_nan |-> FALSE]

SelectHists ==
    << NoHistory,
       Flat60,
       \* the last Volume is NaN
       Hist(252, WideWindow, [price |-> 120, prev |-> 110, ma50 |-> 160, ma200 |-> 160],
            [G |-> 50, L |-> 50], TRUE, [cv |-> 0, volsum |-> 19000, vol_nan |-> TRUE]),
       \* a parabolic top, rated bearish
       Hist(252, WideWindow, [price |-> 190, prev |-> 180, ma50 |-> 160, ma200 |-> 160],
            [G |-> 90, L |-> 10], FALSE, QuietVolume),
       \* a parabolic top, rated neutral
       Hist(252, HighWindow, [price |-> 190, prev |-> 180, ma50 |-> 190, ma200 |-> 160],
            [G |-> 90, L |-> 10], TRUE, QuietVolume),
       \* a breakout rocket, rated bullish
       Hist(252, WideWindow, [price |-> 190, prev |-> 180, ma50 |-> 160, ma200 |-> 120],
            [G |-> 50, L |-> 50], TRUE, [cv |-> 3000, volsum |-> 20000, vol_nan |-> FALSE]),
       \* no pattern, rated bearish
       Hist(252, WideWindow, [price |-> 120, prev |-> 130, ma50 |-> 120, ma200 |-> 160],
            [G |-> 10, L |-> 90], FALSE, QuietVolume),
       \* no pattern, rated bullish
       Hist(252, WideWindow, [price |-> 120, prev |-> 110, ma50 |-> 160, ma200 |-> 160],
            [G |-> 10, L |-> 90], TRUE, QuietVolume),
       \* no pattern, rated bullish, no volume in the last 20 rows
       Hist(252, WideWindow, [price |-> 120, prev |-> 110, ma50 |-> 160, ma200 |-> 160],
            [G |-> 10, L |-> 90], TRUE, [cv |-> 0, volsum |-> 0, vol_nan |-> FALSE]),
       \* 252 rows with High = Low = Close = 100
       Hist(252, FlatWindow, FlatCloses, [G |-> 0, L |-> 0], FALSE, FlatVolume) >>

----------------------------------------------------------------------------
(* update_picks.py: select_top_picks *)

InitSelect ==
    /\ pc = "select_loop"
    /\ idx = 1
    /\ feed = <<>>
    /\ results = <<>>
    /\ bullish_picks = <<>>
    /\ bearish_picks = <<>>
    /\ fetch = 0 /\ data = 0 /\ tickers = <<>> /\ all_results = <<>>
    /\ data_json = NoFile /\ prev_json = NoFile /\ run = 0
    /\ hist = 0 /\ analysis = None

\* lines 196-200, one iteration; the history is what yfinance answers
SelectLoop ==
    /\ pc = "select_loop"
    /\ idx <= UniverseSize
    /\ \E k \in 1..Len(SelectHists) :
          LET a == analyze_stock(SCAN_UNIVERSE[idx], SelectHists[k])
          IN  /\ feed' = Append(feed, k)
              /\ results' = IF a.some THEN Append(results, a.r) ELSE results
    /\ idx' = idx + 1
    /\ UNCHANGED <<pc, fetch, data, scanVars, analyzeVars, bullish_picks,
                   bearish_picks>>

\* lines 202-227
SelectPick ==
    /\ pc = "select_loop"
    /\ idx > UniverseSize
    /\ bullish_picks' = SelectFrom(results).bullish
    /\ bearish_picks' = SelectFrom(results).bearish
    /\ pc' = "select_returned"
    /\ UNCHANGED <<fetch, data, idx, scanVars, analyzeVars, feed, results>>

NextSelect == SelectLoop \/ SelectPick

SpecSelect == InitSelect /\ [][NextSelect]_vars

----------------------------------------------------------------------------
(* scanner.py: get_expanded_tickers on its own *)

Cells == {Str(BrkDot), Str(BrkHyphen), Str(BfDot), Str(Sym(1)), NotStr}

Columns == UNION {[1..n -> Cells] : n \in 0..MaxList}

InitTickers ==
    /\ pc = "tickers_call"
    /\ \/ fetch = [ok |-> FALSE, sp500 |-> <<>>, nasdaq100 |-> <<>>]
       \/ \E a \in Columns, b \in Columns :
             fetch = [ok |-> TRUE, sp500 |-> a, nasdaq100 |-> b]
    /\ tickers = <<>>
    /\ data = 0 /\ idx = 0 /\ all_results = <<>>
    /\ data_json = NoFile /\ prev_json = NoFile /\ run = 0
    /\ hist = 0 /\ analysis = None
    /\ feed = <<>> /\ results = <<>> /\ bullish_picks = <<>> /\ bearish_picks = <<>>

GetTickers ==
    /\ pc = "tickers_call"
    /\ \E h \in HashOrders : tickers' = get_expanded_tickers(fetch, h)
    /\ pc' = "tickers_returned"
    /\ UNCHANGED <<fetch, data, idx, all_results, data_json, prev_json, run,
                   analyzeVars, selectVars>>

NextTickers == GetTickers

SpecTickers == InitTickers /\ [][NextTickers]_vars

----------------------------------------------------------------------------
(* The whole model *)

Init == InitTickers \/ InitScan \/ InitAnalyze \/ InitSelect

Next == NextTickers \/ NextScan \/ NextAnalyze \/ NextSelect

Spec == Init /\ [][Next]_vars

\* The two batch programs. Each is one sequential Python process, which takes
\* its next step whenever it has one.
InitRuns == InitScan \/ InitSelect

NextRuns == NextScan \/ NextSelect

SpecRuns == InitRuns /\ [][NextRuns]_vars /\ WF_vars(NextRuns)

----------------------------------------------------------------------------
(* Properties *)

Picks == data_json.picks

TickersOf(rs) == [i \in 1..Len(rs) |-> rs[i].ticker]

\* C1: the picks scan() writes to data.json are at most 15 and sorted
\* non-increasing by score.
C1_PicksBoundedAndSorted ==
    /\ Len(Picks) <= 15
    /\ \A i \in 1..(Len(Picks) - 1) : Picks[i].score >= Picks[i + 1].score

\* more than 15 records admitted, in an order the sort had to change
C1_Witness ==
    /\ pc = "scan_written"
    /\ Len(all_results) > 15
    /\ Len(Picks) = 15
    /\ Picks[1].score > Picks[15].score
    /\ all_results[1].score < Picks[1].score

\* the frames of the download that score above 0, by hand from Frame:
\* 3 (flat: RSI 0, Oversold), 4 (rising: Bullish Trend), 6 (Volume Spike),
\* 7 (Trend Breakout and Volume Spike), 8 (Trend Breakout)
ScoringFrames == {3, 4, 6, 7, 8}

\* the frames whose processing raises: 1 (no column), 9 (no Volume)
RaisingFrames == {1, 9}

\* the histories of SelectHists analyze_stock returns None for: 1 (history
\* raises), 2 (60 rows), 3 (NaN volume: int() raises)
FailingHists == {1, 2, 3}

C2_ScanProcessesAll ==
    pc \in {"scan_loop", "scan_written"} =>
        TickersOf(all_results) =
            SelectSeq(SubSeq(tickers, 1, idx - 1),
                      LAMBDA s : FrameOf(data, s) \in ScoringFrames)

C2_SelectProcessesAll ==
    pc \in {"select_loop", "select_returned"} =>
        /\ Len(feed) = idx - 1
        /\ TickersOf(results) =
              LET kept == SelectSeq([i \in 1..Len(feed) |-> i],
                                    LAMBDA i : feed[i] \notin FailingHists)
              IN  [j \in 1..Len(kept) |-> SCAN_UNIVERSE[kept[j]]]

\* the output step of the last run is reached
Finished ==
    \/ pc = "scan_written" /\ run = 2
    \/ pc = "select_returned"

\* a step of NextRuns is enabled: the guards of ScanStart, of ScanLoop or
\* ScanWrite, of ScanAgain, and of SelectLoop or SelectPick
CanStep ==
    \/ pc \in {"scan_start", "scan_loop", "select_loop"}
    \/ pc = "scan_written" /\ run = 1

\* the steps a program still has to take: the runs left, then the position
\* in the run, then the tickers left in the loop
StepsLeft ==
    CASE pc = "scan_start" -> (2 - run) * 1000 + 300
      [] pc = "scan_loop" -> (2 - run) * 1000 + 200 + (Len(tickers) + 1 - idx)
      [] pc = "scan_written" -> (2 - run) * 1000 + 100
      [] pc = "select_loop" -> 100 + (UniverseSize + 1 - idx)
      [] OTHER -> 0

\* C2: a ticker whose processing raises is skipped and the batch goes on:
\* scan() and select_top_picks() process every other ticker in order, and every
\* run reaches its output step: a program that has not finished has a next
\* step, and every step leaves fewer steps to take.
C2_FailureNeverAborts ==
    /\ [](C2_ScanProcessesAll /\ C2_SelectProcessesAll)
    /\ [](Finished \/ CanStep)
    /\ [][StepsLeft' < StepsLeft]_vars

\* a scan wrote its output after a ticker raised and a later ticker was admitted
C2_Witness ==
    /\ pc = "scan_written"
    /\ \E i \in 1..Len(tickers) : \E j \in 1..Len(tickers) :
          /\ i < j
          /\ FrameOf(data, tickers[i]) \in RaisingFrames
          /\ \E k \in 1..Len(all_results) : all_results[k].ticker = tickers[j]

Returned == pc = "analyze_returned" /\ analysis.some

\* C3: the rating and bias are STRONG BUY/BUY (bullish) iff bullish_score >
\* bearish_score + 2, split at bullish_score >= 7; STRONG PUT/PUT (bearish)
\* symmetrically; NEUTRAL (neutral) exactly when the scores differ by at most 2.
C3_RatingFromScores ==
    Returned =>
        LET b == analysis.r.bullish_score
            s == analysis.r.bearish_score
            is(rating, bias) == analysis.r.rating = rating /\ analysis.r.bias = bias
        IN  /\ is("STRONG BUY", "bullish") <=> (b > s + 2 /\ b >= 7)
            /\ is("BUY", "bullish") <=> (b > s + 2 /\ b < 7)
            /\ is("STRONG PUT", "bearish") <=> (s > b + 2 /\ s >= 7)
            /\ is("PUT", "bearish") <=> (s > b + 2 /\ s < 7)
            /\ is("NEUTRAL", "neutral") <=> (b - s <= 2 /\ s - b <= 2)

\* a result at the edge of the margin: two points ahead and still NEUTRAL
C3_Witness ==
    /\ Returned
    /\ analysis.r.bullish_score = analysis.r.bearish_score + 2
    /\ analysis.r.rating = "NEUTRAL"

\* what the rules other than the volume rule add, and so what the volume rule
\* added to each score of the returned record
OtherRules(h) ==
    <<RsiRule(calculate_rsi(h.G, h.L)), MacdRule(h.macd_above),
      MaRule(h.price, h.ma50, h.ma200), PdRule(PdPosition(h))>>

VolumeAddedBull ==
    analysis.r.bullish_score - SumSeq([i \in 1..4 |-> OtherRules(hist)[i].bull])

VolumeAddedBear ==
    analysis.r.bearish_score - SumSeq([i \in 1..4 |-> OtherRules(hist)[i].bear])

\* volume_ratio > 1.5 and volume_ratio <= 1.5, on the history; neither holds
\* of a NaN ratio
RatioAbove == hist.volsum > 0 /\ 40 * hist.cv > 3 * hist.volsum
RatioAtMost == hist.volsum > 0 /\ 40 * hist.cv <= 3 * hist.volsum

\* C4 as claimed: with volume_ratio > 1.5 the volume rule adds 1 to
\* bullish_score when the last close is above the previous one and otherwise,
\* equality included, 1 to bearish_score; with volume_ratio <= 1.5 it adds
\* nothing.
C4_VolumeRuleElseBearish ==
    Returned =>
        /\ RatioAbove /\ hist.price > hist.prev =>
              VolumeAddedBull = 1 /\ VolumeAddedBear = 0
        /\ RatioAbove /\ hist.price <= hist.prev =>
              VolumeAddedBull = 0 /\ VolumeAddedBear = 1
        /\ RatioAtMost => VolumeAddedBull = 0 /\ VolumeAddedBear = 0

\* C4 amended: with volume_ratio > 1.5 the volume rule adds 1 to bullish_score
\* when the last close is above the previous one, 1 to bearish_score when it
\* is below, and nothing when the two are equal; with volume_ratio <= 1.5 it
\* adds nothing.
C4_VolumeRuleStrict ==
    Returned =>
        /\ RatioAbove /\ hist.price > hist.prev =>
              VolumeAddedBull = 1 /\ VolumeAddedBear = 0
        /\ RatioAbove /\ hist.price < hist.prev =>
              VolumeAddedBull = 0 /\ VolumeAddedBear = 1
        /\ RatioAbove /\ hist.price = hist.prev =>
              VolumeAddedBull = 0 /\ VolumeAddedBear = 0
        /\ RatioAtMost => VolumeAddedBull = 0 /\ VolumeAddedBear = 0

\* a high-volume day that closed where the previous one did
C4_Witness == Returned /\ RatioAbove /\ hist.price = hist.prev

NoTickerTwice(picks) ==
    \A i \in 1..Len(picks) : \A j \in 1..Len(picks) :
        i < j => picks[i].ticker # picks[j].ticker

\* C5: no ticker appears twice in the bearish picks, nor in the bullish picks,
\* that select_top_picks returns.
C5_NoTickerSelectedTwice ==
    pc = "select_returned" =>
        NoTickerTwice(bearish_picks) /\ NoTickerTwice(bullish_picks)

CountTagged(picks) == Len(SelectSeq(picks, Tagged))
CountTops(rs) == Len(SelectSeq(rs, IsParabolicTop))
CountRockets(rs) == Len(SelectSeq(rs, IsBreakoutRocket))

\* the tagged picks come first
TaggedFirst(picks) ==
    \A i \in 1..Len(picks) : \A j \in 1..Len(picks) :
        i < j /\ Tagged(picks[j]) => Tagged(picks[i])

\* C6 as claimed: with n pattern matches among the results, min(n, 3) of the
\* returned picks are pattern matches and they precede the backfilled picks.
\* A pick counts as a pattern match when it meets the pattern's conditions,
\* however it was chosen.
C6_PatternFillsAllSlots ==
    pc = "select_returned" =>
        /\ CountTops(bearish_picks)
              = Min(CountTops(results), 3)
        /\ TaggedFirst(bearish_picks)
        /\ CountRockets(bullish_picks)
              = Min(CountRockets(results), 3)
        /\ TaggedFirst(bullish_picks)

\* C6 amended: with n pattern matches among the results, min(n, 2) of the at
\* most 3 returned picks are pattern matches, the first min(n, 2) in encounter
\* order, and they precede the picks backfilled by score.
C6_PatternFillsTwoSlots ==
    pc = "select_returned" =>
        LET tops == SelectSeq(results, IsParabolicTop)
            rockets == SelectSeq(results, IsBreakoutRocket)
        IN  /\ Len(bearish_picks) <= 3 /\ Len(bullish_picks) <= 3
            /\ CountTagged(bearish_picks) = Min(Len(tops), 2)
            /\ TaggedFirst(bearish_picks)
            /\ \A i \in 1..Min(Len(tops), 2) :
                  bearish_picks[i].ticker = tops[i].ticker
            /\ CountTagged(bullish_picks) = Min(Len(rockets), 2)
            /\ TaggedFirst(bullish_picks)
            /\ \A i \in 1..Min(Len(rockets), 2) :
                  bullish_picks[i].ticker = rockets[i].ticker

\* three parabolic tops among the results, and a backfilled third pick
C6_Witness ==
    /\ pc = "select_returned"
    /\ CountTops(results) >= 3
    /\ Len(bearish_picks) = 3
    /\ Tagged(bearish_picks[2])
    /\ ~Tagged(bearish_picks[3])

\* C7: a ticker of 60 flat rows (close 100, volume 1,000,000: frame 3) scores
\* 0 and scan() writes no pick for it.
C7_FlatTickerNotPicked ==
    \A i \in 1..Len(Picks) : FrameOf(data, Picks[i].ticker) # 3

AllDefined(r) ==
    /\ Defined(r.range_position)
    /\ Defined(r.pd_position)
    /\ Defined(r.volume_ratio)

\* C8: a history of 200 rows or more with high_52w = low_52w yields no
\* analysis, and no pick carries an undefined range_position, pd_position or
\* volume_ratio.
C8_ZeroDenominatorSkipped ==
    /\ \A i \in 1..Len(results) : results[i].high_52w # results[i].low_52w
    /\ \A i \in 1..Len(bullish_picks) : AllDefined(bullish_picks[i])
    /\ \A i \in 1..Len(bearish_picks) : AllDefined(bearish_picks[i])

\* C9: the second run of scan(), on the same responses and the same download,
\* writes the picks the first run wrote.
C9_RunsWriteSamePicks ==
    (pc = "scan_written" /\ run = 2) => Picks = prev_json.picks

\* C10: no returned symbol contains '.', and no symbol is returned twice.
C10_NormalizedAndDeduplicated ==
    pc = "tickers_returned" =>
        /\ \A i \in 1..Len(tickers) : "." \notin Range(tickers[i])
        /\ \A i \in 1..Len(tickers) : \A j \in 1..Len(tickers) :
              i < j => tickers[i] # tickers[j]

====
